---- MODULE Spec2Model ----
(***************************************************************************)
(* x-ui-pro: the Telegram bot (xui_bot.py) and the panel API client        *)
(* (xui_api.py).  The model covers the local ledger (BotDatabase, table    *)
(* subscriptions), the remote panel as seen through XUIClient, the         *)
(* fleet registry read by CountryManager, the new-subscription             *)
(* conversation, the status, list, get-link and admin handlers, and the    *)
(* routing configuration generated by CountryRoutingManager.               *)
(*                                                                         *)
(* Strings that the code inspects or builds character by character         *)
(* (country codes, e-mails, hex tokens) are sequences of one-character     *)
(* strings.  Time is counted in whole days; datetime.now() reads `now`.    *)
(* Handlers are dispatched one at a time by the Application, so one        *)
(* handler run is one step.                                                *)
(***************************************************************************)
EXTENDS Integers, Sequences, FiniteSets, TLC

VARIABLES
    scenario,   \* the alphabet of environment inputs of this run (never changes)
    countries,  \* CountryManager.countries: country code -> port
    conv,       \* ConversationHandler state of each (chat, user)
    user_data,  \* context.user_data of each user
    ledger,     \* table subscriptions, in id order
    panel,      \* clients held by the remote panel
    logged_in,  \* XUIClient._logged_in
    now,        \* the local clock, in days
    issued,     \* Confirm presses that reached identity generation
    last,       \* what the last handler run did: replies and panel calls
    delcalls,   \* the delClient requests the panel received, with its answers
    conns,      \* the sqlite3 connections of ledger updates in progress
    dblock,     \* the connection that holds bot.db's write lock, 0 if none
    picked      \* history: the selections made in each conversation since its start

vars ==
    <<scenario, countries, conv, user_data, ledger, panel, logged_in, now, issued, last,
      delcalls, conns, dblock, picked>>

----------------------------------------------------------------------------
(* Bounds of the model *)

\* Confirm presses that may generate an identity
MaxIssued == 2
\* Days the clock may advance
MaxNow == 1
\* Lines of a fleet.state file
MaxLines == 3
\* delClient requests sent to the panel
MaxDeletes == 2

----------------------------------------------------------------------------
(* Program constants *)

BytesPerGB == 1024 * 1024 * 1024
HalfGB == 512 * 1024 * 1024
\* secrets.token_hex(4) in the e-mail, secrets.token_hex(8) for sub_id
EmailTokenBytes == 4
SubIdTokenBytes == 8
LimitIp == 2
DefaultInboundId == 1
\* a column without a value; cmd_mysubs shows "Never" for such an expiry_date
NULL == -1

STATE_WAITING_COUNTRY == "STATE_WAITING_COUNTRY"
STATE_WAITING_TRAFFIC == "STATE_WAITING_TRAFFIC"
STATE_WAITING_DAYS == "STATE_WAITING_DAYS"
STATE_WAITING_CONFIRM == "STATE_WAITING_CONFIRM"
END == "END"

----------------------------------------------------------------------------
(* Characters and strings *)

UpperChars == {"D", "E", "Z"}
\* one byte of a token, as its two hex digits
HexBytes == <<"00", "01", "02", "03">>

\* str.lower() and str.upper(), character by character
LowerChar(c) ==
    CASE c = "D" -> "d" [] c = "E" -> "e" [] c = "Z" -> "z" [] OTHER -> c
UpperChar(c) ==
    CASE c = "d" -> "D" [] c = "e" -> "E" [] c = "z" -> "Z" [] OTHER -> c
lower(s) == [i \in DOMAIN s |-> LowerChar(s[i])]
upper(s) == [i \in DOMAIN s |-> UpperChar(s[i])]

Zeros(n) == [i \in 1..n |-> "00"]
\* secrets.token_hex(nbytes): nbytes bytes, two hex digits each; the k-th
\* value of the pool
token_hex(nbytes, k) == Zeros(nbytes - 1) \o <<HexBytes[k]>>
\* uuid.uuid4(): the k-th value of the pool
uuid4(k) == <<"uuid", k>>

UserPrefix == <<"u", "s", "e", "r", "-">>
Dash == <<"-">>

\* f"user-{country.lower()}-{secrets.token_hex(4)}"
MkEmailNoLower(country, tok) == UserPrefix \o country \o Dash \o tok
MkEmail(country, tok) == UserPrefix \o lower(country) \o Dash \o tok

----------------------------------------------------------------------------
(* Scenarios: the inputs the environment may send in one run *)

DE == <<"D", "E">>
de == <<"d", "e">>
ZZ == <<"Z", "Z">>

\* fleet.state: a sequence of lines, each a sequence of characters that ends
\* with a newline; NoFile when the file does not exist
File(lines) == [exists |-> TRUE, lines |-> lines]
NoFile == [exists |-> FALSE, lines |-> <<>>]
NL == "\n"
LineDE == <<"a", "=", "D", "E", ":", "8", "0", "8", "1", NL>>
LineZZ == <<"b", "=", "Z", "Z", ":", "8", "0", "8", "2", NL>>
LineLowerDe == <<"c", "=", "d", "e", ":", "8", "0", "8", "3", NL>>
LineDEAgain == <<"d", "=", "D", "E", ":", "8", "0", "8", "4", NL>>
LineNoColon == <<"e", "=", "D", "E", NL>>
LineTwoColons == <<"f", "=", "D", "E", ":", "8", "0", ":", "8", "1", NL>>
LineBadPort == <<"g", "=", "D", "E", ":", "8", "x", NL>>
LineZeroPort == <<"h", "=", "D", "E", ":", "0", NL>>
LineNegPort == <<"i", "=", "Z", "Z", ":", "-", "1", NL>>
LineComment == <<"#", "x", NL>>

Lines ==
    {LineDE, LineZZ, LineLowerDe, LineDEAgain, LineNoColon, LineTwoColons,
     LineBadPort, LineZeroPort, LineNegPort, LineComment}
\* every fleet.state of at most MaxLines of these lines
Files == {File(ls) : ls \in UNION {[1..n -> Lines] : n \in 0..MaxLines}}

\* fleet.state holding the line "a=DE:8081"
FleetFile == File(<<LineDE>>)

Usage(up, down) == [up |-> up, down |-> down]
NoInfo == [up |-> -1, down |-> -1]

\* the e-mails of the first and of the second grant issued for "DE"
Email1 == MkEmail(DE, token_hex(EmailTokenBytes, 1))
Email2 == MkEmail(DE, token_hex(EmailTokenBytes, 2))

\* a call of a ledger update that some caller makes during the run
DbCall(id, op, email, arg) == [id |-> id, op |-> op, email |-> email, arg |-> arg]

BaseScenario ==
    [name |-> "base", chats |-> {1}, users |-> {1}, fleet |-> FleetFile,
     countryData |-> {DE}, trafficData |-> {1}, daysData |-> {30},
     collide |-> FALSE, usage |-> {}, fetchFail |-> {"timeout"}, used |-> {},
     clock |-> FALSE, restarts |-> FALSE, stray |-> FALSE, faults |-> TRUE,
     revoke |-> {}, dbcalls |-> {}, listing |-> FALSE, admin_ids |-> {},
     adminData |-> {}, routing |-> FALSE, newTotals |-> {}]

\* the bot started on some fleet.state; nobody chooses a country
RegistryScenarios ==
    { [BaseScenario EXCEPT !.name = "registry", !.fleet = f, !.countryData = {},
                           !.routing = TRUE] :
          f \in Files }

Scenarios ==
    RegistryScenarios \cup
    { [BaseScenario EXCEPT !.name = "collide", !.collide = TRUE],
      [BaseScenario EXCEPT !.name = "route", !.countryData = {DE, de, ZZ}],
      [BaseScenario EXCEPT !.name = "status", !.trafficData = {0, 1},
          !.usage = {Usage(0, 0), Usage(HalfGB, HalfGB), Usage(HalfGB + 1, HalfGB)}],
      [BaseScenario EXCEPT !.name = "sweep", !.usage = {Usage(0, 0)},
          !.fetchFail = {"notfound", "timeout", "rejected"}, !.restarts = TRUE],
      [BaseScenario EXCEPT !.name = "late", !.stray = TRUE],
      \* callers update the ledger at the same time; nobody asks for /status
      [BaseScenario EXCEPT !.name = "concurrent", !.faults = FALSE, !.fetchFail = {},
          !.dbcalls = {DbCall(1, "add_traffic", Email1, 1),
                       DbCall(2, "add_traffic", Email1, 2)}],
      \* a caller revokes the first grant, another extends it
      [BaseScenario EXCEPT !.name = "revoke", !.faults = FALSE, !.fetchFail = {},
          !.revoke = {1},
          !.dbcalls = {DbCall(1, "extend_subscription", Email1, 30)}],
      \* a caller records the usage of the first grant
      [BaseScenario EXCEPT !.name = "record", !.faults = FALSE, !.fetchFail = {},
          !.dbcalls = {DbCall(1, "update_subscription_traffic", Email1, 1)}],
      [BaseScenario EXCEPT !.name = "usage", !.trafficData = {0, 1}, !.used = {1, 2}],
      [BaseScenario EXCEPT !.name = "expiry", !.daysData = {0, 30}, !.clock = TRUE],
      [BaseScenario EXCEPT !.name = "nofleet", !.fleet = NoFile],
      \* two users hold grants, list them and ask for links
      [BaseScenario EXCEPT !.name = "owners", !.users = {1, 2}, !.faults = FALSE,
          !.fetchFail = {}, !.listing = TRUE],
      \* a user lists grants created on different days and on the same day
      [BaseScenario EXCEPT !.name = "recent", !.faults = FALSE, !.fetchFail = {},
          !.clock = TRUE, !.listing = TRUE],
      \* user 1 is an administrator, user 2 is not; nobody chooses a country
      [BaseScenario EXCEPT !.name = "admin", !.users = {1, 2}, !.countryData = {},
          !.admin_ids = {1}, !.adminData = {"stats", "countries", "users"}],
      \* one user talks to the bot in two chats
      [BaseScenario EXCEPT !.name = "chats", !.chats = {1, 2}, !.countryData = {DE, ZZ},
          !.faults = FALSE, !.fetchFail = {}],
      \* a caller sets the panel quota of the first grant
      [BaseScenario EXCEPT !.name = "requota", !.faults = FALSE, !.fetchFail = {},
          !.newTotals = {0, 1}] }

----------------------------------------------------------------------------
(* CountryManager *)

Whitespace == {" ", NL}
Digits == <<"0", "1", "2", "3", "4", "5", "6", "7", "8", "9">>

\* c in s
Contains(s, c) == \E i \in DOMAIN s : s[i] = c
\* s.find(c), counted from 1; 0 when c is not in s
Find(s, c) ==
    IF Contains(s, c) THEN CHOOSE i \in DOMAIN s : s[i] = c /\ \A j \in 1..(i - 1) : s[j] # c
    ELSE 0

\* str.strip()
RECURSIVE lstrip(_)
lstrip(s) == IF s # <<>> /\ Head(s) \in Whitespace THEN lstrip(Tail(s)) ELSE s
RECURSIVE rstrip(_)
rstrip(s) ==
    IF s # <<>> /\ s[Len(s)] \in Whitespace THEN rstrip(SubSeq(s, 1, Len(s) - 1)) ELSE s
strip(s) == rstrip(lstrip(s))

\* s.split(c): the parts between the occurrences of c
RECURSIVE split(_, _)
split(s, c) ==
    LET k == Find(s, c)
    IN  IF k = 0 THEN <<s>>
        ELSE <<SubSeq(s, 1, k - 1)>> \o split(SubSeq(s, k + 1, Len(s)), c)
\* s.split(c, 1): cut at the first occurrence of c only
split1(s, c) ==
    LET k == Find(s, c)
    IN  IF k = 0 THEN <<s>> ELSE <<SubSeq(s, 1, k - 1), SubSeq(s, k + 1, Len(s))>>

IsDigit(c) == \E d \in DOMAIN Digits : Digits[d] = c
DigitValue(c) == (CHOOSE d \in DOMAIN Digits : Digits[d] = c) - 1
RECURSIVE Decimal(_)
Decimal(ds) ==
    IF ds = <<>> THEN 0
    ELSE 10 * Decimal(SubSeq(ds, 1, Len(ds) - 1)) + DigitValue(ds[Len(ds)])
\* int(text): an optional sign and at least one digit, else ValueError
IntParses(text) ==
    LET t == strip(text)
        ds == IF t # <<>> /\ Head(t) \in {"-", "+"} THEN Tail(t) ELSE t
    IN  ds # <<>> /\ \A i \in DOMAIN ds : IsDigit(ds[i])
int(text) ==
    LET t == strip(text)
    IN  IF Head(t) = "-" THEN 0 - Decimal(Tail(t))
        ELSE IF Head(t) = "+" THEN Decimal(Tail(t))
        ELSE Decimal(t)

\* one line of fleet.state, as the loop body reads it: skipped when it has no
\* "="; ValueError when the part after "=" is not `country:port` with a port
\* that int() accepts
LineSkipped(line) == ~Contains(line, "=")
LineConfig(line) == split(split1(strip(line), "=")[2], ":")
LineRaises(line) ==
    /\ ~LineSkipped(line)
    /\ \/ Len(LineConfig(line)) # 2
       \/ ~IntParses(LineConfig(line)[2])
LineCountry(line) == LineConfig(line)[1]
LinePort(line) == int(LineConfig(line)[2])

\* countries[country] = int(port)
DictSet(d, k, v) == [x \in DOMAIN d \cup {k} |-> IF x = k THEN v ELSE d[x]]
EmptyDict == [c \in {} |-> 0]

\* the loop over the lines, from line i on; the first exception ends the loop
\* (the try encloses it) and what was read so far is returned
RECURSIVE LoadFrom(_, _, _)
LoadFrom(lines, i, acc) ==
    IF i > Len(lines) THEN acc
    ELSE IF LineSkipped(lines[i]) THEN LoadFrom(lines, i + 1, acc)
    ELSE IF LineRaises(lines[i]) THEN acc
    ELSE LoadFrom(lines, i + 1, DictSet(acc, LineCountry(lines[i]), LinePort(lines[i])))

\* CountryManager._load_countries
_load_countries(file) ==
    IF ~file.exists THEN EmptyDict ELSE LoadFrom(file.lines, 1, EmptyDict)

get_available == DOMAIN countries
is_available(code) == upper(code) \in DOMAIN countries

----------------------------------------------------------------------------
(* What a handler run leaves behind *)

NoIdent == <<>>
Did(op, u, reply, calls, ident, lines) ==
    [op |-> op, chat |-> 0, user |-> u, reply |-> reply, calls |-> calls,
     ident |-> ident, lines |-> lines]
\* the run of a conversation's handler: update.effective_chat is part of the
\* conversation's key
DidIn(c, did) == [did EXCEPT !.chat = c]

\* ConversationHandler with per_chat and per_user (the defaults): one
\* conversation per (chat, user); context.user_data is per user
Keys == scenario.chats \X scenario.users

NoUserData == [country |-> <<>>, traffic |-> -1, days |-> -1]

\* a connection not opened yet, and no holder of the write lock
Idle == [pc |-> "idle", pending |-> <<>>, overlap |-> {}]
NoConn == 0

Init ==
    /\ scenario \in Scenarios
    /\ countries = _load_countries(scenario.fleet)
    /\ conv = [k \in Keys |-> END]
    /\ user_data = [u \in scenario.users |-> NoUserData]
    /\ ledger = <<>>
    /\ panel = <<>>
    /\ logged_in = FALSE
    /\ now = 0
    /\ issued = 0
    /\ last = Did("init", 0, "", <<>>, NoIdent, <<>>)
    /\ delcalls = <<>>
    /\ conns = [c \in {call.id : call \in scenario.dbcalls} |-> Idle]
    /\ dblock = NoConn
    /\ picked = [k \in Keys |-> <<>>]

----------------------------------------------------------------------------
(* The new-subscription conversation *)

\* cmd_new: `if not available:`
NoneAvailableNever(available) == FALSE
NoneAvailable(available) == available = {}

\* a selection of a conversation, for its history
Pick(field, value) == [field |-> field, value |-> value]

cmd_new(c, u) ==
    /\ conv[c, u] = END
    /\ IF NoneAvailable(get_available)
       THEN /\ conv' = [conv EXCEPT ![c, u] = END]
            /\ last' = DidIn(c, Did("cmd_new", u, "no countries", <<>>, NoIdent, <<>>))
       ELSE /\ conv' = [conv EXCEPT ![c, u] = STATE_WAITING_COUNTRY]
            /\ last' = DidIn(c, Did("cmd_new", u, "select country", <<>>, NoIdent, <<>>))
    /\ picked' = [picked EXCEPT ![c, u] = <<>>]
    /\ UNCHANGED <<scenario, countries, user_data, ledger, panel, logged_in, now, issued, delcalls, conns, dblock>>

Cancelled(op, c, u) ==
    /\ conv' = [conv EXCEPT ![c, u] = END]
    /\ last' = DidIn(c, Did(op, u, "cancelled", <<>>, NoIdent, <<>>))
    /\ UNCHANGED <<scenario, countries, user_data, ledger, panel, logged_in, now, issued, delcalls, conns, dblock, picked>>

callback_country(c, u) ==
    /\ conv[c, u] = STATE_WAITING_COUNTRY
    /\ \/ Cancelled("callback_country", c, u)
       \/ \E country \in scenario.countryData :
            /\ user_data' = [user_data EXCEPT ![u].country = country]
            /\ conv' = [conv EXCEPT ![c, u] = STATE_WAITING_TRAFFIC]
            /\ picked' = [picked EXCEPT ![c, u] = Append(@, Pick("country", country))]
            /\ last' = DidIn(c, Did("callback_country", u, "select traffic", <<>>, NoIdent, <<>>))
            /\ UNCHANGED <<scenario, countries, ledger, panel, logged_in, now, issued, delcalls, conns, dblock>>

callback_traffic(c, u) ==
    /\ conv[c, u] = STATE_WAITING_TRAFFIC
    /\ \/ Cancelled("callback_traffic", c, u)
       \/ \E traffic \in scenario.trafficData :
            /\ user_data' = [user_data EXCEPT ![u].traffic = traffic]
            /\ conv' = [conv EXCEPT ![c, u] = STATE_WAITING_DAYS]
            /\ picked' = [picked EXCEPT ![c, u] = Append(@, Pick("traffic", traffic))]
            /\ last' = DidIn(c, Did("callback_traffic", u, "select duration", <<>>, NoIdent, <<>>))
            /\ UNCHANGED <<scenario, countries, ledger, panel, logged_in, now, issued, delcalls, conns, dblock>>

callback_days(c, u) ==
    /\ conv[c, u] = STATE_WAITING_DAYS
    /\ \/ Cancelled("callback_days", c, u)
       \/ \E days \in scenario.daysData :
            /\ user_data' = [user_data EXCEPT ![u].days = days]
            /\ conv' = [conv EXCEPT ![c, u] = STATE_WAITING_CONFIRM]
            /\ picked' = [picked EXCEPT ![c, u] = Append(@, Pick("days", days))]
            /\ last' = DidIn(c, Did("callback_days", u, "confirm", <<>>, NoIdent, <<>>))
            /\ UNCHANGED <<scenario, countries, ledger, panel, logged_in, now, issued, delcalls, conns, dblock>>

\* /cancel, the conversation's fallback
cancel(c, u) ==
    /\ conv[c, u] # END
    /\ Cancelled("cancel", c, u)

----------------------------------------------------------------------------
(* XUIClient and BotDatabase, as used by callback_confirm *)

\* the random source: in a scenario that explores collisions any value of a
\* small pool, otherwise a value never drawn before
CollidePool == {1, 2}
DrawIdx == IF scenario.collide THEN CollidePool ELSE {issued + 1}

\* what the panel answers to addClient; "timeout" stands for every exception
\* of the request (transport error, timeout, a body that is not JSON)
AddResponses == {"success", "rejected", "timeout"}
\* the answers of this run: in a run without faults the panel accepts
AddAnswers == IF scenario.faults THEN AddResponses ELSE {"success"}
\* whether the INSERT fails for a reason of its own (disk, I/O)
InsertAnswers == IF scenario.faults THEN BOOLEAN ELSE {TRUE}

\* XUIClient.login: the panel's answer decides; ensure_logged_in calls it
\* only when _logged_in is false
LoginAnswers == IF logged_in \/ ~scenario.faults THEN {TRUE} ELSE BOOLEAN
\* the panel calls of ensure_logged_in, each with the panel's answer
LoginCalls(loginOk) ==
    IF logged_in THEN <<>>
    ELSE << <<"login", IF loginOk THEN "success" ELSE "failed">> >>

\* ensure_logged_in: `if not self._logged_in: if not self.login(): raise`
EnsureRaisesNever(loginOk) == FALSE
EnsureRaises(loginOk) == ~logged_in /\ ~loginOk

\* XUIClient.add_client: expiry_time
ExpiryTime(days) == IF days > 0 THEN (now + days) * 1000 ELSE 0

\* XUIClient.add_client: the client sent to the panel
NewClient(client_uuid, email, traffic, days, u, sub_id) ==
    [id |-> client_uuid, email |-> email, enable |-> TRUE,
     totalGB |-> traffic * BytesPerGB, expiryTime |-> ExpiryTime(days),
     limitIp |-> LimitIp, tgId |-> u, subId |-> sub_id]

\* XUIClient.add_client: data.get("success", False), False on an exception
AddSucceeded(resp) == resp = "success"

\* callback_confirm: `if not success: ... return ConversationHandler.END`
ConfirmProceedsAlways(success) == TRUE
ConfirmProceeds(success) == success

\* BotDatabase.add_subscription: the row inserted, with the schema's defaults
NewRowActiveByClock(u, email, client_uuid, sub_id, country, traffic, days) ==
    [id |-> Len(ledger) + 1, telegram_id |-> u, email |-> email,
     uuid |-> client_uuid, sub_id |-> sub_id, country |-> country,
     inbound_id |-> DefaultInboundId, traffic_gb |-> traffic, traffic_used |-> 0,
     expiry_date |-> now + days,
     is_active |-> IF now + days > now THEN 1 ELSE 0, created_at |-> now]
NewRow(u, email, client_uuid, sub_id, country, traffic, days) ==
    [id |-> Len(ledger) + 1, telegram_id |-> u, email |-> email,
     uuid |-> client_uuid, sub_id |-> sub_id, country |-> country,
     inbound_id |-> DefaultInboundId, traffic_gb |-> traffic, traffic_used |-> 0,
     expiry_date |-> now + days, is_active |-> 1, created_at |-> now]

Rows == 1..Len(ledger)

\* bot.db's write lock: a writing statement of one connection locks out the
\* writes of every other connection until it commits
LockFreeAlways == TRUE
LockFree == dblock = NoConn

\* the table's constraints: email TEXT UNIQUE, sub_id TEXT UNIQUE
UniqueOk(email, sub_id) ==
    \A i \in Rows : ledger[i].email # email /\ ledger[i].sub_id # sub_id

\* callback_confirm: `return ConversationHandler.END` after the attempt
AfterConfirmStay == STATE_WAITING_CONFIRM
AfterConfirm == END

callback_confirm(c, u) ==
    /\ conv[c, u] = STATE_WAITING_CONFIRM
    /\ \/ Cancelled("callback_confirm", c, u)
       \/ /\ issued < MaxIssued
          /\ \E ku \in DrawIdx, ks \in DrawIdx, kt \in DrawIdx,
                loginOk \in LoginAnswers, resp \in AddAnswers, dbOk \in InsertAnswers :
               LET country == user_data[u].country
                   traffic == user_data[u].traffic
                   days == user_data[u].days
                   client_uuid == uuid4(ku)
                   sub_id == token_hex(SubIdTokenBytes, ks)
                   email == MkEmail(country, token_hex(EmailTokenBytes, kt))
                   ident == <<client_uuid, email, sub_id>>
                   client == NewClient(client_uuid, email, traffic, days, u, sub_id)
                   row == NewRow(u, email, client_uuid, sub_id, country, traffic, days)
                   success == AddSucceeded(resp)
               IN  IF EnsureRaises(loginOk)
                   THEN \* ensure_logged_in raises; caught by callback_confirm
                        /\ last' = DidIn(c, Did("callback_confirm", u, "error",
                                       LoginCalls(loginOk), ident, <<>>))
                        /\ UNCHANGED <<logged_in, panel, ledger>>
                   ELSE /\ logged_in' = TRUE
                        /\ panel' = IF success THEN Append(panel, client) ELSE panel
                        /\ IF ~ConfirmProceeds(success)
                           THEN /\ last' = DidIn(c, Did("callback_confirm", u, "failed",
                                               LoginCalls(loginOk) \o << <<"addClient", resp>> >>,
                                               ident, <<>>))
                                /\ UNCHANGED ledger
                           ELSE IF dbOk /\ LockFree /\ UniqueOk(email, sub_id)
                           THEN /\ ledger' = Append(ledger, row)
                                /\ last' = DidIn(c, Did("callback_confirm", u, "created",
                                               LoginCalls(loginOk) \o << <<"addClient", resp>> >>,
                                               ident, <<>>))
                           ELSE \* sqlite3.Error (IntegrityError, OperationalError
                                \* such as "database is locked"); caught
                                /\ last' = DidIn(c, Did("callback_confirm", u, "error",
                                               LoginCalls(loginOk) \o << <<"addClient", resp>> >>,
                                               ident, <<>>))
                                /\ UNCHANGED ledger
          /\ issued' = issued + 1
          /\ conv' = [conv EXCEPT ![c, u] = AfterConfirm]
          /\ UNCHANGED <<scenario, countries, user_data, now, delcalls, conns, dblock, picked>>

\* A callback "confirm_yes" that arrives while the user's conversation is not
\* in STATE_WAITING_CONFIRM (a button of an old message, a second press): the
\* ConversationHandler offers callback_confirm in that state only, and the
\* patterns of the other callback handlers (^getlink_, ^admin_) do not match,
\* so no handler runs.
confirm_unhandled(c, u) ==
    /\ scenario.stray
    /\ conv[c, u] # STATE_WAITING_CONFIRM
    /\ last' = DidIn(c, Did("confirm_unhandled", u, "", <<>>, NoIdent, <<>>))
    /\ UNCHANGED <<scenario, countries, conv, user_data, ledger, panel, logged_in, now, issued, delcalls, conns, dblock, picked>>

----------------------------------------------------------------------------
(* /status *)

\* get_user_subscriptions: the rows of one user
OwnRows(u) == {i \in Rows : ledger[i].telegram_id = u}

\* the panel's record of an e-mail's quota ("total" of getClientTraffics)
PanelTotal(email) ==
    LET cs == {k \in 1..Len(panel) : panel[k].email = email}
    IN  IF cs = {} THEN 0 ELSE panel[CHOOSE k \in cs : \A j \in cs : k <= j].totalGB

\* cmd_status: the report of one subscription; used and total are kept in
\* bytes (the code shows them divided by 1024**3)
StatusLine(row, info) ==
    IF info = NoInfo
    THEN [email |-> row.email, kind |-> "unable", used |-> 0, total |-> 0]
    ELSE LET total == PanelTotal(row.email)
             used == info.up + info.down
         IN  [email |-> row.email,
              kind |-> IF total > 0 THEN "limited" ELSE "unlimited",
              used |-> used, total |-> total]

\* what the panel answers to getClientTraffics: "ok" with the usage, "notfound"
\* (success, obj null), "rejected" (success false, no obj), "timeout" (every
\* exception of the request)
TrafficAnswer(status, obj) == [status |-> status, obj |-> obj]
TrafficAnswers ==
    {TrafficAnswer("ok", g) : g \in scenario.usage}
        \cup {TrafficAnswer(f, NoInfo) : f \in scenario.fetchFail}

\* XUIClient.get_client_traffic after ensure_logged_in: data.get("obj"), and
\* None (NoInfo) on an exception
get_client_traffic(answer) == IF answer.status = "ok" THEN answer.obj ELSE NoInfo

\* the rows of one user in id order
OwnSeq(u) == SelectSeq([i \in Rows |-> i], LAMBDA i : ledger[i].telegram_id = u)

\* cmd_status reads the ledger and the panel and writes neither.  The record
\* of the run lists the fetches by row id; the order in which the loop visits
\* the rows changes neither what is fetched nor what is shown for a row.
cmd_status(u) ==
    /\ IF OwnRows(u) = {}
       THEN /\ last' = Did("cmd_status", u, "no subscriptions", <<>>, NoIdent, <<>>)
            /\ UNCHANGED logged_in
       ELSE \E loginOk \in LoginAnswers :
              IF EnsureRaises(loginOk)
              THEN \* ensure_logged_in raises in the first get_client_traffic,
                   \* outside its try; cmd_status has no try: the handler ends
                   /\ last' = Did("cmd_status", u, "exception", LoginCalls(loginOk),
                               NoIdent, <<>>)
                   /\ UNCHANGED logged_in
              ELSE /\ logged_in' = TRUE
                   /\ \E answer \in [OwnRows(u) -> TrafficAnswers] :
                        last' = Did("cmd_status", u, "status",
                                    LoginCalls(loginOk)
                                        \o [k \in DOMAIN OwnSeq(u) |->
                                              <<"getClientTraffics",
                                                answer[OwnSeq(u)[k]].status>>],
                                    NoIdent,
                                    [i \in OwnRows(u) |->
                                        StatusLine(ledger[i], get_client_traffic(answer[i]))])
    /\ UNCHANGED <<scenario, countries, conv, user_data, ledger, panel, now, issued, delcalls, conns, dblock, picked>>

----------------------------------------------------------------------------
(* /mysubs and the Get Link button *)

\* the sequences that hold every row id of S once
Arrangements(S) ==
    {s \in [1..Cardinality(S) -> S] : \A a, b \in DOMAIN s : a # b => s[a] # s[b]}

\* BotDatabase.get_user_subscriptions: WHERE telegram_id = ? ORDER BY
\* created_at DESC.  The statement names no second sort key, so the order of
\* rows with equal created_at is whatever the engine produces: any of them.
get_user_subscriptions(u) ==
    {[k \in DOMAIN s |-> ledger[s[k]]] :
        s \in {t \in Arrangements(OwnRows(u)) :
                 \A a, b \in DOMAIN t :
                    a < b => ledger[t[a]].created_at >= ledger[t[b]].created_at}}

\* cmd_mysubs: `for sub in subs[:5]`
MaxButtons == 5
FirstButtons(subs) ==
    [k \in 1..(IF Len(subs) < MaxButtons THEN Len(subs) ELSE MaxButtons) |->
        subs[k].email]

\* cmd_mysubs reads the ledger and writes nothing; lines holds the rows in
\* the order shown and the e-mails of the Get Link buttons
cmd_mysubs(u) ==
    /\ scenario.listing
    /\ \E subs \in get_user_subscriptions(u) :
         last' = Did("cmd_mysubs", u,
                     IF subs = <<>> THEN "no subscriptions" ELSE "subscriptions",
                     <<>>, NoIdent,
                     [subs |-> subs, buttons |-> FirstButtons(subs)])
    /\ UNCHANGED <<scenario, countries, conv, user_data, ledger, panel, logged_in, now, issued, delcalls, conns, dblock, picked>>

\* BotDatabase.get_subscription_by_email: SELECT ... WHERE email = ?,
\* fetchone(); 0 when no row matches
get_subscription_by_email(email) ==
    LET rows == {i \in Rows : ledger[i].email = email}
    IN  IF rows = {} THEN 0 ELSE CHOOSE i \in rows : \A j \in rows : i <= j

\* LinkGenerator.generate_subscription_url: f"https://{domain}/sub/{sub_id}",
\* with the port after the domain when it is not 443
generate_subscription_url(sub_id) == <<"https://", "domain", "/sub/">> \o sub_id

\* an e-mail that no grant has
UnknownEmail == <<"x">>
\* the e-mails a callback "getlink_<email>" may carry: the client chooses them
GetlinkData == {ledger[i].email : i \in Rows} \cup {UnknownEmail}

\* callback_getlink: the link and its QR code go to query.from_user.id
callback_getlink(u, email) ==
    /\ scenario.listing
    /\ LET i == get_subscription_by_email(email)
       IN  last' = IF i = 0
                   THEN Did("callback_getlink", u, "not found", <<>>, <<email>>, <<>>)
                   ELSE Did("callback_getlink", u, "link", <<>>, <<email>>,
                            [chat_id |-> u,
                             sub_url |-> generate_subscription_url(ledger[i].sub_id),
                             qr |-> generate_subscription_url(ledger[i].sub_id)])
    /\ UNCHANGED <<scenario, countries, conv, user_data, ledger, panel, logged_in, now, issued, delcalls, conns, dblock, picked>>

----------------------------------------------------------------------------
(* BotDatabase operations that no handler calls; a caller may invoke them *)

\* UPDATE subscriptions SET traffic_used = ? WHERE email = ?
UpdatedRowExhausting(row, used_gb) ==
    [row EXCEPT !.traffic_used = used_gb,
                !.is_active = IF used_gb > row.traffic_gb THEN 0 ELSE 1]
UpdatedRow(row, used_gb) == [row EXCEPT !.traffic_used = used_gb]

update_subscription_traffic(email, used_gb) ==
    /\ LockFree
    /\ ledger' = [i \in Rows |-> IF ledger[i].email = email
                                 THEN UpdatedRow(ledger[i], used_gb)
                                 ELSE ledger[i]]
    /\ last' = Did("update_subscription_traffic", 0, "", <<>>, <<email>>, <<>>)
    /\ UNCHANGED <<scenario, countries, conv, user_data, panel, logged_in, now, issued, delcalls, conns, dblock, picked>>

----------------------------------------------------------------------------
(* The ledger updates statement by statement, for callers that overlap: each  *)
(* of update_subscription_traffic, extend_subscription and add_traffic opens  *)
(* its own connection, executes one UPDATE, commits and closes.               *)

\* SET expiry_date = datetime(expiry_date, '+N days')
ExtendedRow(row, extra_days) == [row EXCEPT !.expiry_date = @ + extra_days]
\* SET traffic_gb = traffic_gb + ?
AddedTrafficRow(row, extra_gb) == [row EXCEPT !.traffic_gb = @ + extra_gb]

Call(c) == CHOOSE call \in scenario.dbcalls : call.id = c

\* what the UPDATE of a call makes of a row it matches
RowAfter(call, row) ==
    CASE call.op = "update_subscription_traffic" -> UpdatedRow(row, call.arg)
      [] call.op = "extend_subscription" -> ExtendedRow(row, call.arg)
      [] call.op = "add_traffic" -> AddedTrafficRow(row, call.arg)

\* WHERE email = ?
Matching(email) == {i \in Rows : ledger[i].email = email}

\* sqlite3.connect(self.db_path)
db_connect(c) ==
    /\ conns[c].pc = "idle"
    /\ conns' = [conns EXCEPT ![c].pc = "connected",
                               ![c].overlap = {d \in DOMAIN conns :
                                                 conns[d].pc \in {"connected", "executed"}}]
    /\ UNCHANGED <<scenario, countries, conv, user_data, ledger, panel, logged_in, now,
                   issued, last, delcalls, dblock, picked>>

\* conn.execute("UPDATE ..."): takes the write lock and computes the new rows
\* from the committed ones; they stay private to the connection
db_execute(c) ==
    /\ conns[c].pc = "connected"
    /\ LockFree
    /\ dblock' = c
    /\ conns' = [conns EXCEPT ![c].pc = "executed",
                               ![c].pending = [i \in Matching(Call(c).email) |->
                                                 RowAfter(Call(c), ledger[i])]]
    /\ UNCHANGED <<scenario, countries, conv, user_data, ledger, panel, logged_in, now,
                   issued, last, delcalls, picked>>

\* conn.execute while another connection holds the lock for longer than the
\* busy timeout: sqlite3.OperationalError ("database is locked") is raised to
\* the caller
db_busy(c) ==
    /\ conns[c].pc = "connected"
    /\ ~LockFree
    /\ conns' = [conns EXCEPT ![c].pc = "locked"]
    /\ UNCHANGED <<scenario, countries, conv, user_data, ledger, panel, logged_in, now,
                   issued, last, delcalls, dblock, picked>>

\* conn.commit(); conn.close(): the new rows become the committed ones
db_commit(c) ==
    /\ conns[c].pc = "executed"
    /\ ledger' = [i \in Rows |-> IF i \in DOMAIN conns[c].pending
                                 THEN conns[c].pending[i] ELSE ledger[i]]
    /\ dblock' = IF dblock = c THEN NoConn ELSE dblock
    /\ conns' = [conns EXCEPT ![c].pc = "done", ![c].pending = <<>>]
    /\ UNCHANGED <<scenario, countries, conv, user_data, panel, logged_in, now, issued,
                   last, delcalls, picked>>

----------------------------------------------------------------------------
(* XUIClient.delete_client; no handler calls it, a caller may *)

DelAnswers == {"success", "rejected", "timeout"}

\* the panel removed the client with this id
Deleted(client_uuid) ==
    \E j \in DOMAIN delcalls :
        delcalls[j].uuid = client_uuid /\ delcalls[j].answer = "success"

delete_client(client_uuid) ==
    /\ Len(delcalls) < MaxDeletes
    /\ \E loginOk \in LoginAnswers, resp \in DelAnswers :
         IF EnsureRaises(loginOk)
         THEN \* ensure_logged_in raises
              /\ last' = Did("delete_client", 0, "exception", LoginCalls(loginOk),
                             <<client_uuid>>, <<>>)
              /\ UNCHANGED <<logged_in, delcalls>>
         ELSE /\ logged_in' = TRUE
              /\ delcalls' = Append(delcalls, [uuid |-> client_uuid, answer |-> resp])
              /\ last' = Did("delete_client", 0,
                             IF resp = "success" THEN "True" ELSE "False",
                             LoginCalls(loginOk) \o << <<"delClient", resp>> >>,
                             <<client_uuid>>, <<>>)
    /\ UNCHANGED <<scenario, countries, conv, user_data, ledger, panel, now, issued,
                   conns, dblock, picked>>

----------------------------------------------------------------------------
(* /admin and the admin callbacks *)

\* XUIBot.is_admin: user_id in self.config.admin_ids
is_admin_always(user_id) == TRUE
is_admin(user_id) == user_id \in scenario.admin_ids

cmd_admin(u) ==
    /\ scenario.adminData # {}
    /\ last' = IF ~is_admin(u)
               THEN Did("cmd_admin", u, "unauthorized", <<>>, NoIdent, <<>>)
               ELSE Did("cmd_admin", u, "admin panel", <<>>, NoIdent, <<>>)
    /\ UNCHANGED <<scenario, countries, conv, user_data, ledger, panel, logged_in, now, issued, delcalls, conns, dblock, picked>>

\* what the panel answers to inbound/list: "ok" with the inbounds, "rejected"
\* (success false, no obj), "timeout" (every exception of the request)
ListAnswers == IF scenario.faults THEN {"ok", "rejected", "timeout"} ELSE {"ok"}

\* XUIClient.list_inbounds after ensure_logged_in: data.get("obj", []); the
\* panel has the one inbound DefaultInboundId, holding every client
list_inbounds(resp) ==
    IF resp = "ok"
    THEN <<[id |-> DefaultInboundId, clients |-> Cardinality({k \in 1..Len(panel) : ~Deleted(panel[k].id)})]>>
    ELSE <<>>

RECURSIVE SumClients(_)
SumClients(inbounds) ==
    IF inbounds = <<>> THEN 0 ELSE Head(inbounds).clients + SumClients(Tail(inbounds))

callback_admin(u, action) ==
    /\ LET ran(reply, calls, lines) == Did("callback_admin", u, reply, calls, <<action>>, lines)
       IN  IF ~is_admin(u)
           THEN /\ last' = ran("unauthorized", <<>>, <<>>)
                /\ UNCHANGED logged_in
           ELSE IF action = "stats"
           THEN \E loginOk \in LoginAnswers, resp \in ListAnswers :
                  IF EnsureRaises(loginOk)
                  THEN \* caught by the try around list_inbounds
                       /\ last' = ran("error", LoginCalls(loginOk), <<>>)
                       /\ UNCHANGED logged_in
                  ELSE /\ logged_in' = TRUE
                       /\ last' =
                            IF resp = "timeout"
                            THEN ran("error", LoginCalls(loginOk) \o << <<"list", resp>> >>, <<>>)
                            ELSE ran("stats", LoginCalls(loginOk) \o << <<"list", resp>> >>,
                                     [inbounds |-> Len(list_inbounds(resp)),
                                      total_clients |-> SumClients(list_inbounds(resp)),
                                      countries |-> Cardinality(get_available)])
           ELSE IF action = "countries"
           THEN /\ last' = ran("countries", <<>>, [available |-> get_available])
                /\ UNCHANGED logged_in
           ELSE \* users, subs, create, settings: no branch
                /\ last' = ran("", <<>>, <<>>)
                /\ UNCHANGED logged_in
    /\ UNCHANGED <<scenario, countries, conv, user_data, ledger, panel, now, issued, delcalls, conns, dblock, picked>>

----------------------------------------------------------------------------
(* XUIClient.update_client_traffic; no handler calls it, a caller may *)

\* what the panel answers to inbound/get: "ok" with the inbound, "none"
\* (no obj), "timeout" (every exception of the request)
GetAnswers == {"ok", "none", "timeout"}
UpdateAnswers == {"success", "rejected", "timeout"}

\* settings.clients of the inbound: the clients the panel holds
InboundClients == {k \in 1..Len(panel) : ~Deleted(panel[k].id)}
\* `for client in clients: if client.get("id") == uuid`: the first match
FindClient(client_uuid) ==
    LET ks == {k \in InboundClients : panel[k].id = client_uuid}
    IN  IF ks = {} THEN 0 ELSE CHOOSE k \in ks : \A j \in ks : k <= j

\* client["totalGB"] = int(new_total_gb * 1024 * 1024 * 1024)
Retotalled(client, new_total_gb) == [client EXCEPT !.totalGB = new_total_gb * BytesPerGB]

update_client_traffic(client_uuid, new_total_gb) ==
    /\ \E loginOk \in LoginAnswers, got \in GetAnswers, resp \in UpdateAnswers :
         LET k == FindClient(client_uuid)
             login == LoginCalls(loginOk)
             ran(reply, calls) ==
                 Did("update_client_traffic", 0, reply, calls, <<client_uuid>>, <<>>)
         IN  IF EnsureRaises(loginOk)
             THEN \* ensure_logged_in raises
                  /\ last' = ran("exception", login)
                  /\ UNCHANGED <<logged_in, panel>>
             ELSE /\ logged_in' = TRUE
                  /\ IF got = "timeout"
                     THEN \* get_inbound has no try: the exception reaches the caller
                          /\ last' = ran("exception", login \o << <<"get", got>> >>)
                          /\ UNCHANGED panel
                     ELSE IF got = "none" \/ k = 0
                     THEN /\ last' = ran("False", login \o << <<"get", got>> >>)
                          /\ UNCHANGED panel
                     ELSE /\ panel' = IF resp = "success"
                                      THEN [panel EXCEPT ![k] = Retotalled(@, new_total_gb)]
                                      ELSE panel
                          /\ last' = ran(IF resp = "success" THEN "True" ELSE "False",
                                         login \o << <<"get", got>>, <<"updateClient", resp>> >>)
    /\ UNCHANGED <<scenario, countries, conv, user_data, ledger, now, issued, delcalls, conns, dblock, picked>>

\* the ids a caller may pass: those of the panel's clients and one it never held
Stranger == uuid4(0)
KnownIds == {panel[k].id : k \in 1..Len(panel)} \cup {Stranger}

----------------------------------------------------------------------------
(* xui_api.py: CountryRoutingManager and the command line's action "routing" *)

\* _load_psiphon_countries: the loop of CountryManager._load_countries with
\* no try around it; the exception of a malformed line leaves __init__
LoadRaises(file) ==
    file.exists /\ \E i \in DOMAIN file.lines : LineRaises(file.lines[i])
_load_psiphon_countries(file) ==
    IF file.exists THEN LoadFrom(file.lines, 1, EmptyDict) ELSE EmptyDict

\* self.countries.items(): the keys in the order of their first insertion
RECURSIVE KeyOrder(_, _, _)
KeyOrder(lines, i, acc) ==
    IF i > Len(lines) THEN acc
    ELSE IF LineSkipped(lines[i])
              \/ \E k \in DOMAIN acc : acc[k] = LineCountry(lines[i])
         THEN KeyOrder(lines, i + 1, acc)
         ELSE KeyOrder(lines, i + 1, Append(acc, LineCountry(lines[i])))
items(file) == IF file.exists THEN KeyOrder(file.lines, 1, <<>>) ELSE <<>>

OutPrefix == <<"o", "u", "t", "-">>
Direct == <<"d", "i", "r", "e", "c", "t">>
Blocked == <<"b", "l", "o", "c", "k", "e", "d">>
\* f"user-{country.lower()}" and f"out-{country.lower()}"
UserTag(country) == UserPrefix \o lower(country)
OutTag(country) == OutPrefix \o lower(country)

\* generate_routing_rules: one rule per key, then the default rule
CountryRule(country) ==
    [type |-> "field", user |-> <<UserTag(country)>>, outboundTag |-> OutTag(country),
     network |-> ""]
DefaultRule ==
    [type |-> "field", user |-> <<>>, outboundTag |-> Direct, network |-> "udp,tcp"]
generate_routing_rules(order) ==
    [k \in DOMAIN order |-> CountryRule(order[k])] \o <<DefaultRule>>

\* generate_outbounds: direct, blocked, then one socks outbound per key
Outbound(tag, protocol, address, port) ==
    [tag |-> tag, protocol |-> protocol, address |-> address, port |-> port]
generate_outbounds(cs, order) ==
    <<Outbound(Direct, "freedom", "", 0), Outbound(Blocked, "blackhole", "", 0)>>
        \o [k \in DOMAIN order |->
              Outbound(OutTag(order[k]), "socks", "127.0.0.1", cs[order[k]])]

\* XUIAPIClient.login of the command line's own client
CliLoginAnswers == IF scenario.faults THEN BOOLEAN ELSE {TRUE}

\* main() with --action routing: a process of its own; it logs in, builds a
\* CountryRoutingManager and prints the countries, the rules and the outbounds
main_routing ==
    /\ scenario.routing
    /\ \E loginOk \in CliLoginAnswers :
         LET file == scenario.fleet
             cs == _load_psiphon_countries(file)
         IN  last' =
               IF ~loginOk
               THEN Did("main_routing", 0, "login failed",
                        << <<"login", "failed">> >>, NoIdent, <<>>)
               ELSE IF LoadRaises(file)
               THEN Did("main_routing", 0, "exception",
                        << <<"login", "success">> >>, NoIdent, <<>>)
               ELSE Did("main_routing", 0, "routing",
                        << <<"login", "success">> >>, NoIdent,
                        [countries |-> cs,
                         rules |-> generate_routing_rules(items(file)),
                         outbounds |-> generate_outbounds(cs, items(file))])
    /\ UNCHANGED <<scenario, countries, conv, user_data, ledger, panel, logged_in, now, issued, delcalls, conns, dblock, picked>>

----------------------------------------------------------------------------
(* The bot process is stopped and started again: XUIBot.__init__ builds a new *)
(* XUIClient (not logged in), a new CountryManager and an Application with    *)
(* no conversation in progress; bot.db and the panel keep what they hold.     *)

restart ==
    /\ scenario.restarts
    /\ logged_in' = FALSE
    /\ countries' = _load_countries(scenario.fleet)
    /\ conv' = [k \in Keys |-> END]
    /\ picked' = [k \in Keys |-> <<>>]
    /\ user_data' = [u \in scenario.users |-> NoUserData]
    /\ last' = Did("restart", 0, "", <<>>, NoIdent, <<>>)
    /\ UNCHANGED <<scenario, ledger, panel, now, issued, delcalls, conns, dblock, picked>>

----------------------------------------------------------------------------
(* The clock *)

Tick ==
    /\ scenario.clock
    /\ now < MaxNow
    /\ now' = now + 1
    /\ UNCHANGED <<scenario, countries, conv, user_data, ledger, panel, logged_in, issued, last, delcalls, conns, dblock, picked>>

----------------------------------------------------------------------------

Next ==
    \/ \E c \in scenario.chats, u \in scenario.users : cmd_new(c, u)
    \/ \E c \in scenario.chats, u \in scenario.users : callback_country(c, u)
    \/ \E c \in scenario.chats, u \in scenario.users : callback_traffic(c, u)
    \/ \E c \in scenario.chats, u \in scenario.users : callback_days(c, u)
    \/ \E c \in scenario.chats, u \in scenario.users : callback_confirm(c, u)
    \/ \E c \in scenario.chats, u \in scenario.users : confirm_unhandled(c, u)
    \/ \E c \in scenario.chats, u \in scenario.users : cancel(c, u)
    \/ \E u \in scenario.users : cmd_status(u)
    \/ \E u \in scenario.users : cmd_mysubs(u)
    \/ \E u \in scenario.users, email \in GetlinkData : callback_getlink(u, email)
    \/ \E i \in Rows, used_gb \in scenario.used :
          update_subscription_traffic(ledger[i].email, used_gb)
    \/ \E c \in DOMAIN conns : db_connect(c)
    \/ \E c \in DOMAIN conns : db_execute(c)
    \/ \E c \in DOMAIN conns : db_busy(c)
    \/ \E c \in DOMAIN conns : db_commit(c)
    \/ \E i \in Rows \cap scenario.revoke : delete_client(ledger[i].uuid)
    \/ \E u \in scenario.users : cmd_admin(u)
    \/ \E u \in scenario.users, action \in scenario.adminData : callback_admin(u, action)
    \/ \E client_uuid \in KnownIds, new_total_gb \in scenario.newTotals :
          update_client_traffic(client_uuid, new_total_gb)
    \/ main_routing
    \/ restart
    \/ Tick

Spec == Init /\ [][Next]_vars

\* The bot keeps handling the updates that arrive; nothing else is scheduled.
FairSpec == Spec /\ WF_vars(Next)

----------------------------------------------------------------------------
(* Vocabulary of the properties *)

\* a panel call of the last handler run, with the panel's answer
Called(did, api, answer) ==
    \E k \in DOMAIN did.calls : did.calls[k] = <<api, answer>>
CalledApi(did, api) ==
    \E k \in DOMAIN did.calls : did.calls[k][1] = api

\* the step is a Confirm press that generated an identity
ConfirmStep == last'.op = "callback_confirm" /\ issued' = issued + 1
\* the last handler run was such a press
ConfirmRan == last.op = "callback_confirm" /\ last.reply # "cancelled"

\* the step inserted a row
RowInserted == Len(ledger') > Len(ledger)

\* the ledger row of a panel client
Managed(c) ==
    \E i \in Rows : /\ ledger[i].uuid = c.id
                    /\ ledger[i].email = c.email
                    /\ ledger[i].sub_id = c.subId
\* the k-th credential the panel accepted has no ledger row
OrphanAt(k) == k <= Len(panel) /\ ~Deleted(panel[k].id) /\ ~Managed(panel[k])

\* the identity <<uuid, email, sub_id>> is already in the ledger, in any part
Collides(ident) ==
    \E i \in Rows : \/ ledger[i].uuid = ident[1]
                    \/ ledger[i].email = ident[2]
                    \/ ledger[i].sub_id = ident[3]

IsHex(c) == \E k \in DOMAIN HexBytes : HexBytes[k] = c

\* "user-" + lowercase(country) + "-" + suffix, read off the characters
AliasShape(email, country) ==
    LET n == Len(country)
    IN  /\ Len(email) > n + 6
        /\ SubSeq(email, 1, 5) = <<"u", "s", "e", "r", "-">>
        /\ \A i \in 1..n : /\ email[5 + i] \notin UpperChars
                           /\ UpperChar(email[5 + i]) = UpperChar(country[i])
        /\ email[n + 6] = "-"
        /\ \A i \in (n + 7)..Len(email) : IsHex(email[i])

\* the panel holds the row's credential with expiryTime 0 (never expires)
NeverExpires(row) ==
    \E k \in 1..Len(panel) : /\ panel[k].id = row.uuid
                             /\ panel[k].email = row.email
                             /\ panel[k].expiryTime = 0

----------------------------------------------------------------------------
(* Properties *)

\* C1: a ledger row appears only in a Confirm step whose addClient was
\* answered "success", and it is the row of the identity that was sent; a
\* Confirm step whose add was not confirmed (login failed, panel rejection,
\* transport error or timeout) leaves the ledger as it was; no step removes
\* or renames a row.
C1_RowOnlyAfterConfirmedAdd ==
    [][ /\ RowInserted =>
              /\ ConfirmStep
              /\ Called(last', "addClient", "success")
              /\ Len(ledger') = Len(ledger) + 1
              /\ LET r == ledger'[Len(ledger')]
                 IN  <<r.uuid, r.email, r.sub_id>> = last'.ident
        /\ ConfirmStep /\ ~Called(last', "addClient", "success") => ledger' = ledger
        /\ Len(ledger') >= Len(ledger)
        /\ \A i \in Rows : /\ ledger'[i].email = ledger[i].email
                           /\ ledger'[i].uuid = ledger[i].uuid ]_vars

\* C1 witness: after one grant was recorded, a second Confirm whose add the
\* panel rejected ended with the ledger still holding that one row.
C1_Witness ==
    /\ ConfirmRan
    /\ Called(last, "addClient", "rejected")
    /\ issued = 2
    /\ Len(ledger) = 1
    /\ ~Collides(last.ident)

\* C2 (as claimed): every credential the panel accepted and that has no
\* ledger row is eventually adopted into the ledger or gone from the panel.
C2_OrphanEventuallyResolved ==
    \A k \in 1..MaxIssued : OrphanAt(k) ~> ~OrphanAt(k)

\* C3 (as claimed): no two ledger rows share an e-mail, none share a uuid.
C3_UniqueAliasAndGrantId ==
    \A i \in Rows : \A j \in Rows :
        i # j => /\ ledger[i].email # ledger[j].email
                 /\ ledger[i].uuid # ledger[j].uuid

\* C4 (as claimed): an identity sent to the panel in addClient collides with
\* no ledger row, in uuid, e-mail or sub_id.
C4_NoCollidingIdentitySent ==
    [][ ConfirmStep /\ CalledApi(last', "addClient") => ~Collides(last'.ident) ]_vars

\* C5 (as claimed): no step decreases the stored traffic_used of a row.
C5_UsageNeverDecreases ==
    [][ \A i \in Rows : ledger'[i].traffic_used >= ledger[i].traffic_used ]_vars

\* C6 (as claimed): a Confirm for a country that is not available fails: it
\* sends no addClient and leaves no ledger row for the identity it generated.
C6_UnavailableCountryIssuesNothing ==
    ConfirmRan /\ ~is_available(user_data[last.user].country) =>
        /\ last.reply # "created"
        /\ ~CalledApi(last, "addClient")
        /\ ~Managed([id |-> last.ident[1], email |-> last.ident[2],
                     subId |-> last.ident[3]])

C8_OverQuotaExhaustsAndDeletes ==
    last.op = "cmd_status" /\ last.reply = "status" =>
        \A i \in DOMAIN last.lines :
            ( /\ last.lines[i].kind # "unable"
              /\ ledger[i].traffic_gb > 0
              /\ last.lines[i].used > ledger[i].traffic_gb * BytesPerGB )
            => /\ ledger[i].traffic_used * BytesPerGB = last.lines[i].used
               /\ ledger[i].is_active = 0
               /\ CalledApi(last, "delClient")

\* C9: a row with quota 0 is active in every reachable state.
C9_UnlimitedNeverExhausted ==
    \A i \in Rows : ledger[i].traffic_gb = 0 => ledger[i].is_active = 1

\* C9 witness: a grant with quota 0 has recorded usage above 0 and is active.
C9_Witness ==
    \E i \in Rows : /\ ledger[i].traffic_gb = 0
                    /\ ledger[i].traffic_used > 0
                    /\ ledger[i].is_active = 1

\* C10: a row whose credential never expires (expiryTime 0 on the panel) is
\* active in every reachable state, wherever the clock stands.
C10_NeverExpiringStaysActive ==
    \A i \in Rows : NeverExpires(ledger[i]) => ledger[i].is_active = 1

\* C10 witness: the clock has passed the stored expiry_date of a grant that
\* never expires, and the grant is active.
C10_Witness ==
    \E i \in Rows : /\ NeverExpires(ledger[i])
                    /\ now > ledger[i].expiry_date
                    /\ ledger[i].is_active = 1

\* the last operation was a delete_client of a credential that an earlier
\* delete_client had already removed from the panel
SecondRevoke ==
    /\ last.op = "delete_client"
    /\ last.reply # "exception"
    /\ Len(delcalls) >= 2
    /\ delcalls[Len(delcalls)].uuid = last.ident[1]
    /\ \E j \in 1..(Len(delcalls) - 1) :
          delcalls[j].uuid = last.ident[1] /\ delcalls[j].answer = "success"

\* C11 (as claimed): after a second revoke of a grant its row is inactive
\* (REVOKED) and the call reported success.
C11_SecondRevokeKeepsRevoked ==
    SecondRevoke =>
        /\ \A i \in Rows : ledger[i].uuid = last.ident[1] => ledger[i].is_active = 0
        /\ last.reply = "True"

\* row i is in a terminal state: inactive in the ledger, or revoked (its
\* credential was deleted from the panel)
Terminal(i) == ledger[i].is_active = 0 \/ Deleted(ledger[i].uuid)

\* C12 (as claimed): no step changes the state, quota, expiry or consumed
\* usage of a row that is in a terminal state, and the row is kept.
C12_TerminalRowNeverRewritten ==
    [][ \A i \in Rows :
          Terminal(i) =>
              /\ i <= Len(ledger')
              /\ ledger'[i].is_active = ledger[i].is_active
              /\ ledger'[i].traffic_gb = ledger[i].traffic_gb
              /\ ledger'[i].expiry_date = ledger[i].expiry_date
              /\ ledger'[i].traffic_used = ledger[i].traffic_used ]_vars

\* the step is the commit of connection c; the step is its refusal
CommitStep(c) == conns[c].pc = "executed" /\ conns'[c].pc = "done"
RefusedStep(c) == conns[c].pc = "connected" /\ conns'[c].pc = "locked"
\* the ledger after the update of a call is applied to it as a whole
Applied(call, rows) ==
    [i \in DOMAIN rows |-> IF rows[i].email = call.email
                            THEN RowAfter(call, rows[i]) ELSE rows[i]]

\* C15: the commit of an update leaves the ledger as the whole update applied
\* to the ledger as committed just before it: the updates take effect one
\* after the other in commit order, none is lost, and the rows of other
\* e-mails are untouched.  A call that is refused ("database is locked")
\* changes nothing, and no step of a connection other than its commit
\* changes the ledger.
C15_UpdatesSerialized ==
    [][ /\ \A c \in DOMAIN conns :
              /\ CommitStep(c) => ledger' = Applied(Call(c), ledger)
              /\ RefusedStep(c) => ledger' = ledger
        /\ (conns' # conns /\ \A c \in DOMAIN conns : ~CommitStep(c)) =>
              ledger' = ledger ]_vars

\* C15 witness: two add_traffic calls for the first grant (1 GB and 2 GB on a
\* quota of 1 GB) were open at the same time, both committed, and the quota is
\* 4 GB, while the second grant kept its quota.
C15_Witness ==
    /\ DOMAIN conns = {1, 2}
    /\ Call(1).op = "add_traffic" /\ Call(2).op = "add_traffic"
    /\ conns[1].pc = "done" /\ conns[2].pc = "done"
    /\ 1 \in conns[2].overlap
    /\ Len(ledger) = 2
    /\ ledger[1].email = Call(1).email /\ ledger[1].email = Call(2).email
    /\ ledger[1].traffic_gb = 4
    /\ ledger[2].traffic_gb = 1

\* /status ran for a user who has subscriptions
StatusRan == last.op = "cmd_status" /\ OwnRows(last.user) # {}

\* C13 (as claimed): a /status over several grants ends with a result for
\* every grant, whatever failed while one of them was fetched (a time-out, a
\* transport error, a failed login).
C13_BatchReportsEveryGrant ==
    StatusRan /\ Cardinality(OwnRows(last.user)) >= 2 =>
        /\ last.reply = "status"
        /\ DOMAIN last.lines = OwnRows(last.user)

\* the k-th fetch of the last /status ended in a final failure
FetchFailed(k) ==
    LET n == Len(last.calls) - Len(OwnSeq(last.user))
    IN  last.calls[n + k][2] \in {"timeout", "rejected"}

\* C16 (as claimed): what cmd_status gets from get_client_traffic for a fetch
\* that timed out or was rejected differs from what it gets for a client the
\* panel does not know.
C16_FailureIsNotNotFound ==
    StatusRan /\ last.reply = "status" =>
        \A k \in DOMAIN OwnSeq(last.user) :
            FetchFailed(k) =>
                last.lines[OwnSeq(last.user)[k]] #
                    StatusLine(ledger[OwnSeq(last.user)[k]],
                               get_client_traffic(TrafficAnswer("notfound", NoInfo)))

\* C14: a step adds a client to the panel or a row to the ledger only as the
\* Confirm of a user whose conversation waits for it, adds at most one of
\* each, and ends that conversation; a Confirm callback that arrives in any
\* other state of the conversation changes neither the panel, the ledger nor
\* the conversation.
C14_OneGrantPerConversation ==
    [][ /\ (Len(panel') > Len(panel) \/ RowInserted) =>
              /\ ConfirmStep
              /\ conv[last'.chat, last'.user] = STATE_WAITING_CONFIRM
              /\ conv'[last'.chat, last'.user] = END
              /\ Len(panel') <= Len(panel) + 1
              /\ Len(ledger') <= Len(ledger) + 1
        /\ ConfirmStep => conv'[last'.chat, last'.user] = END
        /\ (last' # last /\ last'.op = "confirm_unhandled") =>
              UNCHANGED <<ledger, panel, issued, conv>> ]_vars

\* C14 witness: one conversation was confirmed and recorded, Confirm was
\* pressed again after it ended, and there is still one client and one row.
C14_Witness ==
    /\ last.op = "confirm_unhandled"
    /\ conv[last.chat, last.user] = END
    /\ issued = 1
    /\ Len(panel) = 1
    /\ Len(ledger) = 1

\* the codes a caller may ask about: two letters of either case
Letters == UpperChars \cup {LowerChar(c) : c \in UpperChars}
Codes == {<<a, b>> : a \in Letters, b \in Letters}
\* a line that gives a country and a port
WellFormed(line) == ~LineSkipped(line) /\ ~LineRaises(line)

\* C17: when fleet.state does not exist the table is empty, and /new answers
\* "no countries available" and leaves the conversation ended: no user is
\* ever in a selection state.
C17_AbsentRegistryEndsNew ==
    ~scenario.fleet.exists =>
        /\ DOMAIN countries = {}
        /\ \A k \in Keys : conv[k] = END
        /\ last.op = "cmd_new" => last.reply = "no countries"

\* C17 witness: without fleet.state, /new was answered "no countries
\* available".
C17_Witness ==
    /\ ~scenario.fleet.exists
    /\ last.op = "cmd_new"
    /\ last.reply = "no countries"
    /\ conv[last.chat, last.user] = END

\* C18 (as claimed): the table holds the country of every well-formed line
\* of fleet.state, wherever the malformed lines are.
C18_EveryWellFormedLineLoaded ==
    scenario.fleet.exists =>
        \A i \in DOMAIN scenario.fleet.lines :
            WellFormed(scenario.fleet.lines[i]) =>
                LineCountry(scenario.fleet.lines[i]) \in DOMAIN countries

\* C19 (as claimed): is_available is true for every letter-case variant of
\* every code of the table, and false for every code that has no variant in
\* the table.
C19_AvailableIgnoresCase ==
    \A v \in Codes :
        is_available(v) <=> \E c \in DOMAIN countries : upper(c) = upper(v)

\* C20 (as claimed): every port of the table is strictly positive (the codes
\* are the keys of a dict, so each occurs once).
C20_PortsPositive ==
    \A c \in DOMAIN countries : countries[c] > 0

----------------------------------------------------------------------------
\* C21: /mysubs lists exactly the ledger rows of the calling user, each once,
\* the most recently created first; of two rows with the same created_at the
\* one inserted later (the larger id) comes first.
MysubsRan == last.op = "cmd_mysubs"
C21_ListedMostRecentFirst ==
    MysubsRan =>
        LET subs == last.lines.subs
        IN  /\ {subs[k].id : k \in DOMAIN subs} = OwnRows(last.user)
            /\ Len(subs) = Cardinality(OwnRows(last.user))
            /\ \A k \in DOMAIN subs : subs[k] = ledger[subs[k].id]
            /\ \A a, b \in DOMAIN subs : a < b => subs[a].id > subs[b].id

----------------------------------------------------------------------------
\* the routing-rule matcher binds an alias to a rule when an entry of the
\* rule's user list is a prefix of the alias
IsPrefix(p, s) == Len(p) <= Len(s) /\ SubSeq(s, 1, Len(p)) = p
RuleBinds(rule, alias) == \E i \in DOMAIN rule.user : IsPrefix(rule.user[i], alias)
\* the aliases issued for a country
Aliases(country) ==
    {MkEmail(country, token_hex(EmailTokenBytes, k)) : k \in DOMAIN HexBytes}
RoutingRan == last.op = "main_routing" /\ last.reply = "routing"

\* C22: for every country of the table and every alias issued for it, some
\* generated rule binds the alias, every rule that binds it names an outbound
\* that exists, and every outbound of that name is the country's own: a
\* socks outbound that forwards to the country's port.
C22_AliasBoundToItsCountry ==
    RoutingRan =>
        LET cs == last.lines.countries
            rules == last.lines.rules
            outbounds == last.lines.outbounds
        IN  \A country \in DOMAIN cs : \A alias \in Aliases(country) :
              /\ \E k \in DOMAIN rules : RuleBinds(rules[k], alias)
              /\ \A k \in DOMAIN rules :
                    RuleBinds(rules[k], alias) =>
                      /\ \E j \in DOMAIN outbounds :
                            outbounds[j].tag = rules[k].outboundTag
                      /\ \A j \in DOMAIN outbounds :
                            outbounds[j].tag = rules[k].outboundTag =>
                                /\ outbounds[j].protocol = "socks"
                                /\ outbounds[j].port = cs[country]

\* C29: the generated configuration is consistent: one rule per country,
\* every rule's outboundTag is the tag of a generated outbound, the country
\* rules come before the catch-all direct rule, and no two outbounds share a
\* tag.
C29_GeneratedConfigConsistent ==
    RoutingRan =>
        LET cs == last.lines.countries
            rules == last.lines.rules
            outbounds == last.lines.outbounds
        IN  /\ Len(rules) = Cardinality(DOMAIN cs) + 1
            /\ \A country \in DOMAIN cs :
                  Cardinality({k \in DOMAIN rules :
                                 rules[k].user = <<UserTag(country)>>}) = 1
            /\ \A k \in DOMAIN rules :
                  \E j \in DOMAIN outbounds : outbounds[j].tag = rules[k].outboundTag
            /\ \A k \in DOMAIN rules :
                  (rules[k].user = <<>> /\ rules[k].outboundTag = Direct) <=> k = Len(rules)
            /\ \A i, j \in DOMAIN outbounds :
                  i # j => outbounds[i].tag # outbounds[j].tag

----------------------------------------------------------------------------
\* the conversation of a handler run
KeyOf(did) == <<did.chat, did.user>>
\* the step is a Cancel of a conversation in progress
CancelStep == last'.reply = "cancelled" /\ conv' # conv
\* the selections of a conversation that went through the three menus once,
\* in their order
PickedInOrder(p) ==
    /\ Len(p) = 3
    /\ p[1].field = "country" /\ p[2].field = "traffic" /\ p[3].field = "days"

\* C23: only a Confirm press adds a client to the panel or a row to the
\* ledger; it is pressed in a conversation that selected country, traffic and
\* duration in that order, and the client and the row carry the values
\* selected in that conversation.  A Cancel ends the conversation with no
\* panel call and no change of the ledger or the panel.
C23_IssuanceFollowsTheConversation ==
    [][ /\ (Len(panel') > Len(panel) \/ RowInserted) => ConfirmStep
        /\ ConfirmStep =>
              LET p == picked[KeyOf(last')]
              IN  /\ conv[KeyOf(last')] = STATE_WAITING_CONFIRM
                  /\ PickedInOrder(p)
                  /\ Len(panel') > Len(panel) =>
                        LET client == panel'[Len(panel')]
                        IN  /\ AliasShape(client.email, p[1].value)
                            /\ client.totalGB = p[2].value * BytesPerGB
                            /\ client.expiryTime = ExpiryTime(p[3].value)
                  /\ RowInserted =>
                        LET row == ledger'[Len(ledger')]
                        IN  /\ row.country = p[1].value
                            /\ row.traffic_gb = p[2].value
                            /\ row.expiry_date = now + p[3].value
        /\ CancelStep =>
              /\ conv'[KeyOf(last')] = END
              /\ last'.calls = <<>>
              /\ UNCHANGED <<ledger, panel>> ]_vars

----------------------------------------------------------------------------
\* the ledger row i and the panel client k are the same credential
SameCredential(i, k) ==
    /\ i \in Rows /\ k \in 1..Len(panel)
    /\ panel[k].id = ledger[i].uuid
    /\ ~Deleted(panel[k].id)

\* C24: the quota of a grant in the ledger, in GB, times 2^30 is the totalGB
\* the panel holds for its credential.
C24_QuotaAgrees ==
    \A i \in Rows : \A k \in 1..Len(panel) :
        SameCredential(i, k) =>
            /\ panel[k].totalGB % BytesPerGB = 0
            /\ panel[k].totalGB \div BytesPerGB = ledger[i].traffic_gb

----------------------------------------------------------------------------
\* C25: the ledger and the panel agree on the expiry of every grant: when the
\* panel holds expiryTime 0 (never expires) the ledger holds no expiry date,
\* and otherwise both hold the same instant.
C25_ExpiryAgrees ==
    \A i \in Rows : \A k \in 1..Len(panel) :
        SameCredential(i, k) =>
            IF panel[k].expiryTime = 0
            THEN ledger[i].expiry_date = NULL
            ELSE panel[k].expiryTime = ledger[i].expiry_date * 1000

----------------------------------------------------------------------------
\* a run of an operation of the bot's XUIClient, or of a handler that uses it
ClientRan == last' # last /\ last'.op # "main_routing"
\* the k-th request of a run was sent after a successful login
AfterLogin(did, k) ==
    logged_in \/ \E j \in 1..(k - 1) : did.calls[j] = <<"login", "success">>

\* C26: a request for a panel operation is sent only after a login that
\* succeeded, in this run or in an earlier one of the same client.  A run
\* whose login fails raises, sends nothing but that login and leaves the
\* client not logged in; a client that is not logged in starts its next
\* operation with a login, and a client that is logged in sends none.
C26_LoginBeforeEveryRequest ==
    [][ /\ ClientRan =>
              /\ \A k \in DOMAIN last'.calls :
                    last'.calls[k][1] # "login" => AfterLogin(last', k)
              /\ (~logged_in /\ last'.calls # <<>>) => last'.calls[1][1] = "login"
              /\ CalledApi(last', "login") => ~logged_in
              /\ Called(last', "login", "success") => logged_in'
              /\ Called(last', "login", "failed") => ~logged_in'
        /\ (last' # last /\ Called(last', "login", "failed")) =>
              /\ last'.calls = << <<"login", "failed">> >>
              /\ last'.reply \in {"exception", "error", "login failed"}
      ]_vars

\* C26 witness: with no restart of the bot, a second Confirm logs in and adds
\* its client: the login of the first Confirm had failed and left the client
\* not logged in.
C26_Witness ==
    /\ ~scenario.restarts
    /\ issued = 2
    /\ last.op = "callback_confirm"
    /\ Called(last, "login", "success")
    /\ Called(last, "addClient", "success")

----------------------------------------------------------------------------
\* the last handler run sent the subscription link of row i
Disclosed(i) ==
    /\ last.op = "callback_getlink"
    /\ last.reply = "link"
    /\ last.lines.sub_url = generate_subscription_url(ledger[i].sub_id)

\* C27: the get-link callback sends the link (and so the sub_id) of a grant
\* only to the user who owns the grant.
C27_LinkOnlyForOwner ==
    \A i \in Rows : Disclosed(i) => ledger[i].telegram_id = last.lines.chat_id

----------------------------------------------------------------------------
AdminRan == last.op \in {"cmd_admin", "callback_admin"}

\* C28: /admin and every admin callback answer Unauthorized, with no panel
\* call and no data, to a user whose id is not in admin_ids; only a user in
\* admin_ids gets the admin panel, the statistics (the one action that
\* queries the panel) or the countries.
C28_AdminOnlyForAdmins ==
    AdminRan =>
        IF last.user \in scenario.admin_ids
        THEN last.reply # "unauthorized"
        ELSE /\ last.reply = "unauthorized"
             /\ last.calls = <<>>
             /\ last.lines = <<>>

\* C28 witness: a user who is not an administrator pressed admin_stats and
\* was refused; an administrator got the statistics in another run.
C28_Witness ==
    /\ last.op = "callback_admin"
    /\ last.ident = <<"stats">>
    /\ last.user \notin scenario.admin_ids
    /\ last.reply = "unauthorized"
    /\ logged_in

====
